---- MODULE Spec2Model ----
(***************************************************************************)
(* The optimizer update rules of the notebooks (momentum, adagrad,         *)
(* rmsprop, adam), their zero-state initialisers, and the 2-D toy          *)
(* versions on f(x1, x2) = 0.1 x1^2 + 2 x2^2.                              *)
(*                                                                         *)
(* Numbers.  The notebooks compute on floating-point tensors and Python    *)
(* floats.  The model computes the same expressions, in the same order,    *)
(* in decimal fixed point: a number is [s, n], the value s * n / Scale     *)
(* with sign s and magnitude n, a natural written as a little-endian       *)
(* sequence of base-10^4 limbs (TLC's integers are 32 bits wide), and      *)
(* Scale = 10^16.  Sums and differences are exact; a product, a quotient   *)
(* and a square root are rounded toward zero to a multiple of 1/Scale.     *)
(* The hyperparameters of the notebooks and the gradients drawn are short  *)
(* decimals, so their sums and short products carry no rounding at all;    *)
(* the binary rounding of the tensor library is not modelled.              *)
(***************************************************************************)
EXTENDS Integers, Sequences, FiniteSets, TLC

(* ------------------------- naturals of any size ------------------------ *)
(* A natural is the sequence of its base-10^4 limbs, lowest first, without *)
(* leading zero limbs; zero is <<>>.                                       *)

Base == 10^4

Min(a, b) == IF a < b THEN a ELSE b
Max(a, b) == IF a > b THEN a ELSE b

NLimb(a, i) == IF i >= 1 /\ i <= Len(a) THEN a[i] ELSE 0

\* the position of the highest nonzero limb
NTop(a) ==
  IF a = <<>> THEN 0
  ELSE IF a[Len(a)] # 0 THEN Len(a)
  ELSE IF \A i \in 1..Len(a) : a[i] = 0 THEN 0
  ELSE CHOOSE i \in 1..Len(a) : a[i] # 0 /\ \A k \in (i + 1)..Len(a) : a[k] = 0

NStrip(a) == SubSeq(a, 1, NTop(a))

RECURSIVE NFromInt(_)
NFromInt(k) == IF k = 0 THEN <<>> ELSE <<k % Base>> \o NFromInt(k \div Base)

\* a * Base^k
NShift(a, k) == IF a = <<>> THEN a ELSE [i \in 1..k |-> 0] \o a

\* -1 or 1 as a < b or a > b, a and b of one length and different at or below i
RECURSIVE NCmpFrom(_, _, _)
NCmpFrom(a, b, i) ==
  IF a[i] < b[i] THEN -1
  ELSE IF a[i] > b[i] THEN 1
  ELSE NCmpFrom(a, b, i - 1)

\* -1, 0 or 1 as a < b, a = b or a > b
NCmp(a, b) ==
  IF Len(a) # Len(b) THEN (IF Len(a) < Len(b) THEN -1 ELSE 1)
  ELSE IF a = b THEN 0
  ELSE NCmpFrom(a, b, Len(a))

\* the carry into limb i, for limbs s[i] <= 2 * (Base - 1) before carrying
RECURSIVE NCarry(_, _)
NCarry(s, i) ==
  i > 1 /\ (s[i - 1] >= Base \/ (s[i - 1] = Base - 1 /\ NCarry(s, i - 1)))

NCarried(s) ==
  NStrip([i \in 1..Len(s) |-> (s[i] + (IF NCarry(s, i) THEN 1 ELSE 0)) % Base])

NAdd(a, b) ==
  IF a = <<>> THEN b
  ELSE IF b = <<>> THEN a
  ELSE NCarried([i \in 1..(Max(Len(a), Len(b)) + 1) |-> NLimb(a, i) + NLimb(b, i)])

\* the borrow from limb i, for limbs d[i] > -Base before borrowing
RECURSIVE NBorrow(_, _)
NBorrow(d, i) ==
  i > 1 /\ (d[i - 1] < 0 \/ (d[i - 1] = 0 /\ NBorrow(d, i - 1)))

NBorrowed(d) ==
  NStrip([i \in 1..Len(d) |-> (d[i] - (IF NBorrow(d, i) THEN 1 ELSE 0) + Base) % Base])

\* a - b, for a >= b
NSub(a, b) ==
  IF b = <<>> THEN a ELSE NBorrowed([i \in 1..Len(a) |-> a[i] - NLimb(b, i)])

\* a * k for a small k (0 <= k < Base)
NMulS(a, k) ==
  IF k = 0 THEN <<>>
  ELSE IF k = 1 THEN a
  ELSE NCarried([i \in 1..(Len(a) + 1) |->
                   ((NLimb(a, i) * k) % Base) + ((NLimb(a, i - 1) * k) \div Base)])

\* a * (b[j] + Base * b[j + 1] + ...)
RECURSIVE NMulFrom(_, _, _)
NMulFrom(a, b, j) ==
  IF j > Len(b) THEN <<>>
  ELSE IF b[j] = 0 THEN NShift(NMulFrom(a, b, j + 1), 1)
  ELSE NAdd(NMulS(a, b[j]), NShift(NMulFrom(a, b, j + 1), 1))

NMul(a, b) == IF a = <<>> \/ b = <<>> THEN <<>> ELSE NMulFrom(a, b, 1)

\* floor(a / 2)
NHalf(a) ==
  NStrip([i \in 1..Len(a) |-> (a[i] + (NLimb(a, i + 1) % 2) * Base) \div 2])

\* Long division by b, b with a highest limb of at least Base / 2.  The
\* digits of the quotient for the limbs i, i - 1, ..., 1 of a, highest
\* first; r is the running remainder, r < b * Base; the digit is the
\* estimate from the highest limbs of r and b, or one or two less; p = b * q.
RECURSIVE NDivFrom(_, _, _, _)
RECURSIVE NDivTake(_, _, _, _, _, _)
NDivTake(a, b, i, r, q, p) ==
  IF NCmp(p, r) <= 0 THEN <<q>> \o NDivFrom(a, b, i - 1, NSub(r, p))
  ELSE NDivTake(a, b, i, r, q - 1, NSub(p, b))

NDivTry(a, b, i, r, q) == NDivTake(a, b, i, r, q, NMulS(b, q))

NDivAt(a, b, i, r) ==
  IF NCmp(r, b) < 0 THEN <<0>> \o NDivFrom(a, b, i - 1, r)
  ELSE NDivTry(a, b, i, r,
               Min(Base - 1, (NLimb(r, Len(b) + 1) * Base + NLimb(r, Len(b)))
                                \div b[Len(b)]))

NDivFrom(a, b, i, r) ==
  IF i = 0 THEN <<>> ELSE NDivAt(a, b, i, NStrip(<<a[i]>> \o r))

NRev(s) == [i \in 1..Len(s) |-> s[Len(s) + 1 - i]]

NDivN(a, b) == NStrip(NRev(NDivFrom(a, b, Len(a), <<>>)))

\* the factor that brings the highest limb of b to Base / 2 or more
NNorm(b) == Base \div (b[Len(b)] + 1)

\* floor(a / b), for b > 0
NDiv(a, b) ==
  IF NCmp(a, b) < 0 THEN <<>>
  ELSE NDivN(NMulS(a, NNorm(b)), NMulS(b, NNorm(b)))

\* floor(sqrt(t)) of an integer t < Base * Base, between lo and hi
RECURSIVE ISqrtB(_, _, _)
ISqrtB(t, lo, hi) ==
  IF lo = hi THEN lo
  ELSE IF ((lo + hi + 1) \div 2) * ((lo + hi + 1) \div 2) <= t
       THEN ISqrtB(t, (lo + hi + 1) \div 2, hi)
  ELSE ISqrtB(t, lo, (lo + hi + 1) \div 2 - 1)

\* a number above sqrt(a), from the two highest limbs of a >= Base
NSqrtGuess(a) ==
  IF Len(a) % 2 = 0
  THEN NShift(NFromInt(ISqrtB(a[Len(a)] * Base + a[Len(a) - 1], 0, Base - 1) + 1),
              (Len(a) - 2) \div 2)
  ELSE NShift(NMulS(NFromInt(ISqrtB(a[Len(a)] * Base + a[Len(a) - 1], 0, Base - 1) + 1),
                    100),
              (Len(a) - 3) \div 2)

\* floor(sqrt(a)) for a > 0, by Newton's iteration downwards from x > sqrt(a):
\* y is the next iterate of x
RECURSIVE NSqrtN(_, _)
NSqrtStep(a, x, y) == IF NCmp(y, x) >= 0 THEN x ELSE NSqrtN(a, y)

NSqrtN(a, x) == NSqrtStep(a, x, NHalf(NAdd(x, NDiv(a, x))))

\* floor(sqrt(a))
NSqrt(a) ==
  IF a = <<>> THEN <<>>
  ELSE IF Len(a) = 1 THEN <<ISqrtB(a[1], 0, Base - 1)>>
  ELSE NSqrtN(a, NSqrtGuess(a))

(* ------------------------- fixed-point numbers ------------------------- *)
(* A number is [s, n]: s * n / Scale with s in {-1, 0, 1} and n a natural; *)
(* zero is written [s |-> 0, n |-> <<>>] only, so equal numbers are equal  *)
(* records.                                                                *)

\* 10^16
Scale == <<0, 0, 0, 0, 1>>

Zero == [s |-> 0, n |-> <<>>]
One == [s |-> 1, n |-> Scale]

Num(s, n) == IF n = <<>> \/ s = 0 THEN Zero ELSE [s |-> s, n |-> n]

\* floor(n / Scale)
NUnscale(n) == IF Len(n) < Len(Scale) THEN <<>> ELSE SubSeq(n, Len(Scale), Len(n))

\* the number a/b of two integers (b > 0)
Frac(a, b) ==
  Num(IF a < 0 THEN -1 ELSE IF a = 0 THEN 0 ELSE 1,
      NDiv(NMul(NFromInt(IF a < 0 THEN -a ELSE a), Scale), NFromInt(b)))

RNeg(a) == [a EXCEPT !.s = -a.s]
RAbs(a) == [a EXCEPT !.s = IF a.s = 0 THEN 0 ELSE 1]

\* -1, 0 or 1 as a < b, a = b or a > b
RCmp(a, b) ==
  IF a.s # b.s THEN (IF a.s < b.s THEN -1 ELSE 1)
  ELSE IF a.s = 0 THEN 0
  ELSE a.s * NCmp(a.n, b.n)

REq(a, b) == RCmp(a, b) = 0
RLe(a, b) == RCmp(a, b) <= 0
RLt(a, b) == RCmp(a, b) < 0

\* sa * x + sb * y for sa # sb, c comparing x with y
RDiff(sa, x, sb, y, c) ==
  IF c = 0 THEN Zero
  ELSE IF c > 0 THEN Num(sa, NSub(x, y))
  ELSE Num(sb, NSub(y, x))

RAdd(a, b) ==
  IF a.s = 0 THEN b
  ELSE IF b.s = 0 THEN a
  ELSE IF a.s = b.s THEN Num(a.s, NAdd(a.n, b.n))
  ELSE RDiff(a.s, a.n, b.s, b.n, NCmp(a.n, b.n))

RSub(a, b) == RAdd(a, RNeg(b))

RMul(a, b) == Num(a.s * b.s, NUnscale(NMul(a.n, b.n)))

\* a / b, for b # 0
RDiv(a, b) == Num(a.s * b.s, NDiv(NMul(a.n, Scale), b.n))

RECURSIVE RPow(_, _)
RPow(a, k) == IF k = 0 THEN One ELSE RMul(a, RPow(a, k - 1))

\* sqrt(a) for a >= 0
RSqrt(a) == Num(1, NSqrt(NMul(a.n, Scale)))

(* ---------------------------- exact fractions --------------------------- *)
(* The recurrences of the notebooks' text are over the reals.  A fraction  *)
(* is [s, p, q]: s * p / q with s in {-1, 0, 1} and naturals p and q > 0,  *)
(* not in lowest terms; it is compared by cross-multiplication, never by   *)
(* the equality of records.                                                *)

\* the position of the lowest nonzero limb of a > 0
NLow(a) == CHOOSE i \in 1..Len(a) : a[i] # 0 /\ \A k \in 1..(i - 1) : a[k] = 0

\* p / q with k low zero limbs taken from both
QCut(s, p, q, k) == [s |-> s, p |-> SubSeq(p, k, Len(p)), q |-> SubSeq(q, k, Len(q))]

QNum(s, p, q) ==
  IF p = <<>> \/ s = 0 THEN [s |-> 0, p |-> <<>>, q |-> <<1>>]
  ELSE QCut(s, p, q, Min(NLow(p), NLow(q)))

QZero == QNum(0, <<>>, <<1>>)
QOne == QNum(1, <<1>>, <<1>>)

\* the fraction a/b of two integers (b > 0)
QFrac(a, b) ==
  QNum(IF a < 0 THEN -1 ELSE IF a = 0 THEN 0 ELSE 1,
       NFromInt(IF a < 0 THEN -a ELSE a), NFromInt(b))

QNeg(a) == [a EXCEPT !.s = -a.s]
QAbs(a) == [a EXCEPT !.s = IF a.s = 0 THEN 0 ELSE 1]

\* -1, 0 or 1 as a < b, a = b or a > b
QCmp(a, b) ==
  IF a.s # b.s THEN (IF a.s < b.s THEN -1 ELSE 1)
  ELSE IF a.s = 0 THEN 0
  ELSE a.s * NCmp(NMul(a.p, b.q), NMul(b.p, a.q))

QEq(a, b) == QCmp(a, b) = 0
QLe(a, b) == QCmp(a, b) <= 0
QLt(a, b) == QCmp(a, b) < 0

\* (sa * x + sb * y) / q, c comparing x with y
QSum(sa, x, sb, y, q, c) ==
  IF sa = sb THEN QNum(sa, NAdd(x, y), q)
  ELSE IF c = 0 THEN QZero
  ELSE IF c > 0 THEN QNum(sa, NSub(x, y), q)
  ELSE QNum(sb, NSub(y, x), q)

QSumOver(sa, x, sb, y, q) == QSum(sa, x, sb, y, q, NCmp(x, y))

QAdd(a, b) ==
  IF a.s = 0 THEN b
  ELSE IF b.s = 0 THEN a
  ELSE IF a.q = b.q THEN QSumOver(a.s, a.p, b.s, b.p, a.q)
  ELSE QSumOver(a.s, NMul(a.p, b.q), b.s, NMul(b.p, a.q), NMul(a.q, b.q))

QSub(a, b) == QAdd(a, QNeg(b))

QMul(a, b) == QNum(a.s * b.s, NMul(a.p, b.p), NMul(a.q, b.q))

\* a / b, for b # 0
QDiv(a, b) == QNum(a.s * b.s, NMul(a.p, b.q), NMul(a.q, b.p))

QSquare(a) == QMul(a, a)

\* a to the power k, by squaring
RECURSIVE QPow(_, _)
QPow(a, k) ==
  IF k = 0 THEN QOne
  ELSE IF k % 2 = 0 THEN QSquare(QPow(a, k \div 2))
  ELSE QMul(a, QPow(a, k - 1))

(* ------------------ tensors: sequences of their elements --------------- *)

\* a variant of zeros that fills with ones: an initialiser that is not all-zero
ones(shape) == [i \in 1..shape |-> One]

zeros(shape) == [i \in 1..shape |-> Zero]
TAdd(a, b) == [i \in 1..Len(a) |-> RAdd(a[i], b[i])]
TSub(a, b) == [i \in 1..Len(a) |-> RSub(a[i], b[i])]
TDiv(a, b) == [i \in 1..Len(a) |-> RDiv(a[i], b[i])]
TScale(c, a) == [i \in 1..Len(a) |-> RMul(c, a[i])]
TDivS(a, c) == [i \in 1..Len(a) |-> RDiv(a[i], c)]
TAddS(a, c) == [i \in 1..Len(a) |-> RAdd(a[i], c)]
square(a) == [i \in 1..Len(a) |-> RMul(a[i], a[i])]
sqrt(a) == [i \in 1..Len(a) |-> RSqrt(a[i])]

(* --------------------------- program constants -------------------------- *)

\* features.shape[1]: the number of rows of the weight w (and of its accumulators)
FeatureDim == 2

\* eps = 1e-6 in adagrad, rmsprop, adam, adagrad_2d and rmsprop_2d
eps == Frac(1, 10^6)

\* beta1, beta2 = 0.9, 0.999 in adam
beta1 == Frac(9, 10)
beta2 == Frac(999, 1000)

(* ------------------------------ the bounds ------------------------------ *)

\* calls of the update rule in one training run
MaxCalls == 2
\* training runs started after the first
MaxRuns == 2
\* iterations of one toy 2-D run
MaxIter == 3

(* -------------------------------- state --------------------------------- *)

VARIABLES
  trainer,      \* the update function this notebook drives
  params,       \* <<w, b>>: the parameters' values
  grads,        \* <<w.grad, b.grad>>
  states,       \* the accumulators the initialiser returned, updated in place
  hyperparams,  \* the dict passed to every call of the rule
  pc,           \* "backward" | "update": the training loop's position ("toy" in a toy run)
  hist,         \* the gradients the rule has been called with in this run
  runs,         \* training runs started after the first
  states0,      \* what the first call of the initialiser returned
  used,         \* TRUE when an earlier run updated the accumulators it was given
  x1, x2, s1, s2,  \* the toy run's point and rule state
  eta, gamma,   \* the toy notebooks' globals (gamma: the EWMA's too)
  iter,         \* iterations of the toy run so far
  results,      \* the points the toy run has visited, in order
  y,            \* the exponentially weighted moving average y_t
  xs            \* its inputs so far: x_1, ..., x_t

vars == <<trainer, params, grads, states, hyperparams, pc, hist, runs, states0,
          used, x1, x2, s1, s2, eta, gamma, iter, results, y, xs>>

trainVars ==
  <<trainer, params, grads, states, hyperparams, pc, hist, runs, states0, used>>
toyVars == <<x1, x2, s1, s2, eta, gamma, iter, results>>
ewmaVars == <<y, xs>>


(* --------------------------- the initialisers --------------------------- *)

init_momentum_states == <<zeros(FeatureDim), zeros(1)>>

init_adagrad_states == <<zeros(FeatureDim), zeros(1)>>

init_rmsprop_states == <<zeros(FeatureDim), zeros(1)>>

init_adam_states ==
  <<<<zeros(FeatureDim), zeros(FeatureDim)>>, <<zeros(1), zeros(1)>>>>

(* ---------------------------- the update rules -------------------------- *)
(* Each rule is the loop `for p, s in zip(params, states)` over the        *)
(* parameters in order, every iteration assigning the accumulator and then *)
(* the parameter in place.  P, G and S are the values of params, of the    *)
(* parameters' .grad and of states; H is hyperparams; i is the loop's      *)
(* position; r is what the i-th iteration assigned: [p, s].                *)

LoopDone(P, S, H) == [params |-> P, states |-> S, hyperparams |-> H]

\* a variant of sgd_momentum_v that weights the new term by 1 - momentum
sgd_momentum_v_averaged(g, v, H) ==
  TAdd(TScale(H.momentum, v), TScale(RSub(One, H.momentum), TScale(H.lr, g)))

\* v[:] = hyperparams['momentum'] * v + hyperparams['lr'] * p.grad
sgd_momentum_v(g, v, H) == TAdd(TScale(H.momentum, v), TScale(H.lr, g))

\* p[:] -= v
sgd_momentum_p(p, v) == [p |-> TSub(p, v), s |-> v]

sgd_momentum_body(p, g, v, H) == sgd_momentum_p(p, sgd_momentum_v(g, v, H))

RECURSIVE sgd_momentum_loop(_, _, _, _, _)
sgd_momentum_next(i, P, G, S, H, r) ==
  sgd_momentum_loop(i + 1, [P EXCEPT ![i] = r.p], G, [S EXCEPT ![i] = r.s], H)

\* a variant of the loop that reads the first parameter's gradient for every
\* parameter: an interaction across parameters
sgd_momentum_loop_first_grad(i, P, G, S, H) ==
  IF i > Min(Len(P), Len(S)) THEN LoopDone(P, S, H)
  ELSE sgd_momentum_next(i, P, G, S, H, sgd_momentum_body(P[i], G[1], S[i], H))

sgd_momentum_loop(i, P, G, S, H) ==
  IF i > Min(Len(P), Len(S)) THEN LoopDone(P, S, H)
  ELSE sgd_momentum_next(i, P, G, S, H, sgd_momentum_body(P[i], G[i], S[i], H))

sgd_momentum(P, G, S, H) == sgd_momentum_loop(1, P, G, S, H)

\* a variant of adagrad_s that adds the gradient, not its square
adagrad_s_unsquared(g, s) == TAdd(s, g)

\* a variant of adagrad_s that assigns instead of accumulating
adagrad_s_assigned(g, s) == square(g)

\* s[:] += p.grad.square()
adagrad_s(g, s) == TAdd(s, square(g))

\* a variant of adagrad_p that steps by lr times the gradient, as sgd does
adagrad_p_unscaled(p, g, s, H) == [p |-> TSub(p, TScale(H.lr, g)), s |-> s]

\* a variant of adagrad_p with eps added to the root
adagrad_p_eps_on_root(p, g, s, H) ==
  [p |-> TSub(p, TDiv(TScale(H.lr, g), TAddS(sqrt(s), eps))), s |-> s]

\* p[:] -= hyperparams['lr'] * p.grad / (s + eps).sqrt()
adagrad_p(p, g, s, H) ==
  [p |-> TSub(p, TDiv(TScale(H.lr, g), sqrt(TAddS(s, eps)))), s |-> s]

\* a variant of adagrad_body that steps with the accumulator as it was
adagrad_body_stale(p, g, s, H) == [p |-> adagrad_p(p, g, s, H).p, s |-> adagrad_s(g, s)]

\* s[:] += p.grad.square(), then the step
adagrad_body(p, g, s, H) == adagrad_p(p, g, adagrad_s(g, s), H)

RECURSIVE adagrad_loop(_, _, _, _, _)
adagrad_next(i, P, G, S, H, r) ==
  adagrad_loop(i + 1, [P EXCEPT ![i] = r.p], G, [S EXCEPT ![i] = r.s], H)

adagrad_loop(i, P, G, S, H) ==
  IF i > Min(Len(P), Len(S)) THEN LoopDone(P, S, H)
  ELSE adagrad_next(i, P, G, S, H, adagrad_body(P[i], G[i], S[i], H))

adagrad(P, G, S, H) == adagrad_loop(1, P, G, S, H)

\* a variant of rmsprop_s without the weight 1 - gamma on the new square
rmsprop_s_unweighted(g, s, H) == TAdd(TScale(H.gamma, s), square(g))

\* s[:] = gamma * s + (1 - gamma) * p.grad.square(), gamma = hyperparams['gamma']
rmsprop_s(g, s, H) ==
  TAdd(TScale(H.gamma, s), TScale(RSub(One, H.gamma), square(g)))

\* p[:] -= hyperparams['lr'] * p.grad / (s + eps).sqrt()
rmsprop_p(p, g, s, H) ==
  [p |-> TSub(p, TDiv(TScale(H.lr, g), sqrt(TAddS(s, eps)))), s |-> s]

\* a variant of rmsprop_body that moves p by the previous s
rmsprop_body_stale(p, g, s, H) == [p |-> rmsprop_p(p, g, s, H).p, s |-> rmsprop_s(g, s, H)]

rmsprop_body(p, g, s, H) == rmsprop_p(p, g, rmsprop_s(g, s, H), H)

RECURSIVE rmsprop_loop(_, _, _, _, _)
rmsprop_next(i, P, G, S, H, r) ==
  rmsprop_loop(i + 1, [P EXCEPT ![i] = r.p], G, [S EXCEPT ![i] = r.s], H)

rmsprop_loop(i, P, G, S, H) ==
  IF i > Min(Len(P), Len(S)) THEN LoopDone(P, S, H)
  ELSE rmsprop_next(i, P, G, S, H, rmsprop_body(P[i], G[i], S[i], H))

rmsprop(P, G, S, H) == rmsprop_loop(1, P, G, S, H)

\* a variant of adam_v without the weight 1 - beta1 on the gradient
adam_v_unweighted(g, v) == TAdd(TScale(beta1, v), g)

\* v[:] = beta1 * v + (1 - beta1) * p.grad
adam_v(g, v) == TAdd(TScale(beta1, v), TScale(RSub(One, beta1), g))

\* a variant of adam_s that averages the gradient, not its square
adam_s_unsquared(g, s) == TAdd(TScale(beta2, s), TScale(RSub(One, beta2), g))

\* a variant of adam_s that grows s by one element
adam_s_grown(g, s) ==
  Append(TAdd(TScale(beta2, s), TScale(RSub(One, beta2), square(g))), Zero)

\* s[:] = beta2 * s + (1 - beta2) * p.grad.square()
adam_s(g, s) == TAdd(TScale(beta2, s), TScale(RSub(One, beta2), square(g)))

\* the divisors of the bias correction at time step t:
\* 1 - beta1 ** hyperparams['t'] and 1 - beta2 ** hyperparams['t']
v_bias_div(t) == RSub(One, RPow(beta1, t))
s_bias_div(t) == RSub(One, RPow(beta2, t))

\* v_bias_corr = v / (1 - beta1 ** hyperparams['t'])
v_bias_corr(v, H) == TDivS(v, v_bias_div(H.t))

\* s_bias_corr = s / (1 - beta2 ** hyperparams['t'])
s_bias_corr(s, H) == TDivS(s, s_bias_div(H.t))

\* p[:] -= hyperparams['lr'] * v_bias_corr / (s_bias_corr.sqrt() + eps)
adam_p(p, v, s, H) ==
  [p |-> TSub(p, TDiv(TScale(H.lr, v_bias_corr(v, H)),
                      TAddS(sqrt(s_bias_corr(s, H)), eps))),
   s |-> <<v, s>>]

\* one iteration, on p and its pair vs = (v, s)
adam_body(p, g, vs, H) == adam_p(p, adam_v(g, vs[1]), adam_s(g, vs[2]), H)

RECURSIVE adam_loop(_, _, _, _, _)
\* a variant of adam_next that adds 1 to t inside the loop, after each parameter
adam_next_t_inside(i, P, G, S, H, r) ==
  adam_loop(i + 1, [P EXCEPT ![i] = r.p], G, [S EXCEPT ![i] = r.s],
            [H EXCEPT !.t = @ + 1])

adam_next(i, P, G, S, H, r) ==
  adam_loop(i + 1, [P EXCEPT ![i] = r.p], G, [S EXCEPT ![i] = r.s], H)

adam_loop(i, P, G, S, H) ==
  IF i > Min(Len(P), Len(S)) THEN LoopDone(P, S, H)
  ELSE adam_next(i, P, G, S, H, adam_body(P[i], G[i], S[i], H))

\* a variant of adam_t that counts one step per parameter
adam_t_per_param(r) == [r EXCEPT !.hyperparams.t = @ + Len(r.params)]

\* after the loop: hyperparams['t'] += 1
adam_t(r) == [r EXCEPT !.hyperparams.t = @ + 1]

adam(P, G, S, H) == adam_t(adam_loop(1, P, G, S, H))

(* ------------------------- the toy 2-D functions ------------------------ *)
(* Each maps (x1, x2, s1, s2) to the next (x1, x2, s1, s2) and reads the   *)
(* notebook's globals eta and gamma.                                       *)

\* a variant of gd_2d that moves x2 by the gradient of x1's term
gd_2d_flat(x1_, x2_, s1_, s2_) ==
  <<RSub(x1_, RMul(RMul(eta, Frac(2, 10)), x1_)),
    RSub(x2_, RMul(RMul(eta, Frac(2, 10)), x2_)), Zero, Zero>>

\* (x1 - eta * 0.2 * x1, x2 - eta * 4 * x2, 0, 0)
gd_2d(x1_, x2_, s1_, s2_) ==
  <<RSub(x1_, RMul(RMul(eta, Frac(2, 10)), x1_)),
    RSub(x2_, RMul(RMul(eta, Frac(4, 1)), x2_)), Zero, Zero>>

\* a variant of momentum_2d_x that moves along the velocity, not against it
momentum_2d_x_ascent(x1_, x2_, v1_, v2_) == <<RAdd(x1_, v1_), RAdd(x2_, v2_), v1_, v2_>>

\* return x1 - v1, x2 - v2, v1, v2
momentum_2d_x(x1_, x2_, v1_, v2_) == <<RSub(x1_, v1_), RSub(x2_, v2_), v1_, v2_>>

\* a variant of momentum_2d that keeps the whole velocity whatever gamma is
momentum_2d_undamped(x1_, x2_, v1_, v2_) ==
  momentum_2d_x(x1_, x2_,
                RAdd(v1_, RMul(RMul(eta, Frac(2, 10)), x1_)),
                RAdd(v2_, RMul(RMul(eta, Frac(4, 1)), x2_)))

\* a variant of momentum_2d that forgets the velocity: each step is gd_2d's
momentum_2d_forgetful(x1_, x2_, v1_, v2_) ==
  momentum_2d_x(x1_, x2_,
                RMul(RMul(eta, Frac(2, 10)), x1_),
                RMul(RMul(eta, Frac(4, 1)), x2_))

\* v1 = gamma * v1 + eta * 0.2 * x1;  v2 = gamma * v2 + eta * 4 * x2
momentum_2d(x1_, x2_, v1_, v2_) ==
  momentum_2d_x(x1_, x2_,
                RAdd(RMul(gamma, v1_), RMul(RMul(eta, Frac(2, 10)), x1_)),
                RAdd(RMul(gamma, v2_), RMul(RMul(eta, Frac(4, 1)), x2_)))

\* x1 -= eta / math.sqrt(s1 + eps) * g1;  x2 -= eta / math.sqrt(s2 + eps) * g2
\* return x1, x2, s1, s2
adaptive_2d_x(x1_, x2_, g1, g2, s1_, s2_) ==
  <<RSub(x1_, RMul(RDiv(eta, RSqrt(RAdd(s1_, eps))), g1)),
    RSub(x2_, RMul(RDiv(eta, RSqrt(RAdd(s2_, eps))), g2)), s1_, s2_>>

\* s1 += g1 ** 2;  s2 += g2 ** 2
adagrad_2d_s(x1_, x2_, g1, g2, s1_, s2_) ==
  adaptive_2d_x(x1_, x2_, g1, g2, RAdd(s1_, RPow(g1, 2)), RAdd(s2_, RPow(g2, 2)))

\* g1, g2, eps = 0.2 * x1, 4 * x2, 1e-6
adagrad_2d(x1_, x2_, s1_, s2_) ==
  adagrad_2d_s(x1_, x2_, RMul(Frac(2, 10), x1_), RMul(Frac(4, 1), x2_), s1_, s2_)

\* a variant of rmsprop_2d_s that adds the squares up as adagrad_2d does
rmsprop_2d_s_summed(x1_, x2_, g1, g2, s1_, s2_) ==
  adaptive_2d_x(x1_, x2_, g1, g2, RAdd(s1_, RPow(g1, 2)), RAdd(s2_, RPow(g2, 2)))

\* s1 = gamma * s1 + (1 - gamma) * g1 ** 2;  s2 = gamma * s2 + (1 - gamma) * g2 ** 2
rmsprop_2d_s(x1_, x2_, g1, g2, s1_, s2_) ==
  adaptive_2d_x(x1_, x2_, g1, g2,
                RAdd(RMul(gamma, s1_), RMul(RSub(One, gamma), RPow(g1, 2))),
                RAdd(RMul(gamma, s2_), RMul(RSub(One, gamma), RPow(g2, 2))))

\* g1, g2, eps = 0.2 * x1, 4 * x2, 1e-6
rmsprop_2d(x1_, x2_, s1_, s2_) ==
  rmsprop_2d_s(x1_, x2_, RMul(Frac(2, 10), x1_), RMul(Frac(4, 1), x2_), s1_, s2_)

(* ------------------------------ the inputs ------------------------------ *)

Trainers == {"sgd_momentum", "adagrad", "rmsprop", "adam"}
ToyTrainers == {"gd_2d", "momentum_2d", "adagrad_2d", "rmsprop_2d"}

\* a global that no cell of the notebook has assigned: no number
Undefined == [s |-> 2, n |-> <<>>]

\* a variant of the adam run's hyperparameters with the time step started at 0
adam_hyperparams_t0 == [lr |-> Frac(1, 100), t |-> 0]

\* {'lr': 0.01, 't': 1}: the hyperparameters of the adam run
adam_hyperparams == [lr |-> Frac(1, 100), t |-> 1]

\* the hyperparameters the notebooks' runs pass, and further valid ones
\* (0 <= momentum < 1, 0 <= gamma < 1, lr > 0)
Configs(tr) ==
  CASE tr = "sgd_momentum" ->
         {[lr |-> Frac(2, 100), momentum |-> Frac(1, 2)],
          [lr |-> Frac(2, 100), momentum |-> Frac(9, 10)],
          [lr |-> Frac(4, 1000), momentum |-> Frac(9, 10)],
          [lr |-> Frac(2, 100), momentum |-> Zero]}
    [] tr = "adagrad" -> {[lr |-> Frac(1, 10)]}
    [] tr = "rmsprop" ->
         {[lr |-> Frac(1, 100), gamma |-> Frac(9, 10)],
          [lr |-> Frac(1, 100), gamma |-> Frac(1, 2)],
          [lr |-> Frac(1, 100), gamma |-> Zero]}
    [] tr = "adam" -> {adam_hyperparams}

\* the call init_..._states() in the argument list of the run
InitStates(tr) ==
  CASE tr = "sgd_momentum" -> init_momentum_states
    [] tr = "adagrad" -> init_adagrad_states
    [] tr = "rmsprop" -> init_rmsprop_states
    [] tr = "adam" -> init_adam_states

\* the parameters a run starts from: w of shape (features.shape[1], 1), b of shape (1,)
InitParams == <<<<Frac(1, 100), Frac(-1, 100)>>, zeros(1)>>

\* the gradients one backward pass may leave in <<w.grad, b.grad>>
GradChoices ==
  {<<<<Frac(1, 1), Frac(-2, 1)>>, <<Frac(3, 1)>>>>,
   <<<<Frac(-1, 1), Frac(1, 2)>>, <<Zero>>>>}

\* eta and gamma as the cells before each toy run set them, and further
\* values of gamma in [0, 1)
ToyConfigs ==
  {[fn |-> "gd_2d", eta |-> e, gamma |-> Undefined] : e \in {Frac(4, 10), Frac(6, 10)}}
  \cup {[fn |-> "momentum_2d", eta |-> e, gamma |-> g] :
          e \in {Frac(4, 10), Frac(6, 10)}, g \in {Frac(1, 2), Zero}}
  \cup {[fn |-> "adagrad_2d", eta |-> e, gamma |-> Undefined] :
          e \in {Frac(4, 10), Frac(2, 1)}}
  \cup {[fn |-> "rmsprop_2d", eta |-> Frac(4, 10), gamma |-> Frac(9, 10)]}

\* the point every toy run starts from: train_2d's (-5, -2)
ToyStarts == {<<Frac(-5, 1), Frac(-2, 1)>>}

(* ------------------------------- training ------------------------------- *)

calls == Len(hist)

NoEwma == y = QZero /\ xs = <<>>

NoToy ==
  /\ x1 = Zero /\ x2 = Zero /\ s1 = Zero /\ s2 = Zero
  /\ eta = Undefined /\ gamma = Undefined /\ iter = 0 /\ results = <<>>
  /\ NoEwma

\* a notebook's first run: train_ch7(rule, init_..._states(), {...}, features, labels)
InitTrain ==
  /\ trainer \in Trainers
  /\ hyperparams \in Configs(trainer)
  /\ states = InitStates(trainer)
  /\ states0 = states
  /\ params = InitParams
  /\ grads = <<zeros(FeatureDim), zeros(1)>>
  /\ pc = "backward"
  /\ hist = <<>>
  /\ runs = 0
  /\ used = FALSE
  /\ NoToy

\* the loss's backward pass fills every parameter's .grad
Backward ==
  /\ pc = "backward"
  /\ trainer \in Trainers
  /\ calls < MaxCalls
  /\ grads' \in GradChoices
  /\ pc' = "update"
  /\ UNCHANGED <<trainer, params, states, hyperparams, hist, runs, states0, used,
                 toyVars, ewmaVars>>

\* what a call of the rule leaves behind
Called(r) ==
  /\ params' = r.params
  /\ states' = r.states
  /\ hyperparams' = r.hyperparams
  /\ hist' = Append(hist, grads)
  /\ pc' = "backward"
  /\ UNCHANGED <<trainer, grads, runs, states0, used, toyVars, ewmaVars>>

call_sgd_momentum ==
  /\ pc = "update" /\ trainer = "sgd_momentum"
  /\ Called(sgd_momentum(params, grads, states, hyperparams))

call_adagrad ==
  /\ pc = "update" /\ trainer = "adagrad"
  /\ Called(adagrad(params, grads, states, hyperparams))

call_rmsprop ==
  /\ pc = "update" /\ trainer = "rmsprop"
  /\ Called(rmsprop(params, grads, states, hyperparams))

call_adam ==
  /\ pc = "update" /\ trainer = "adam"
  /\ Called(adam(params, grads, states, hyperparams))

\* the notebook's next run, after a run that called the rule or straight after
\* another next run: the initialiser is called again, the hyperparameters are
\* a new dict, the parameters start afresh
NewRun ==
  /\ pc = "backward"
  /\ trainer \in Trainers
  /\ runs < MaxRuns
  /\ calls > 0 \/ runs > 0
  /\ states' = InitStates(trainer)
  /\ hyperparams' \in Configs(trainer)
  /\ params' = InitParams
  /\ grads' = <<zeros(FeatureDim), zeros(1)>>
  /\ hist' = <<>>
  /\ runs' = runs + 1
  /\ used' = TRUE
  /\ UNCHANGED <<trainer, pc, states0, toyVars, ewmaVars>>

(* ------------------------------- toy runs ------------------------------- *)

NoTraining ==
  /\ params = <<>> /\ grads = <<>> /\ states = <<>> /\ states0 = <<>>
  /\ hyperparams = <<>> /\ hist = <<>> /\ runs = 0 /\ used = FALSE

\* train_2d(fn): x1, x2, s1, s2 start at the run's point with zero rule state,
\* results = [(x1, x2)]
InitToy ==
  /\ \E c \in ToyConfigs :
       /\ trainer = c.fn
       /\ eta = c.eta
       /\ gamma = c.gamma
  /\ \E x \in ToyStarts : x1 = x[1] /\ x2 = x[2]
  /\ s1 = Zero /\ s2 = Zero
  /\ iter = 0
  /\ results = <<<<x1, x2>>>>
  /\ pc = "toy"
  /\ NoTraining
  /\ NoEwma

\* one iteration of train_2d: x1, x2, s1, s2 = trainer(x1, x2, s1, s2);
\* results.append((x1, x2))
Iterated(r) ==
  /\ x1' = r[1] /\ x2' = r[2] /\ s1' = r[3] /\ s2' = r[4]
  /\ iter' = iter + 1
  /\ results' = Append(results, <<r[1], r[2]>>)
  /\ UNCHANGED <<eta, gamma, trainVars, ewmaVars>>

step_gd_2d ==
  /\ pc = "toy" /\ trainer = "gd_2d" /\ iter < MaxIter
  /\ Iterated(gd_2d(x1, x2, s1, s2))

step_momentum_2d ==
  /\ pc = "toy" /\ trainer = "momentum_2d" /\ iter < MaxIter
  /\ Iterated(momentum_2d(x1, x2, s1, s2))

step_adagrad_2d ==
  /\ pc = "toy" /\ trainer = "adagrad_2d" /\ iter < MaxIter
  /\ Iterated(adagrad_2d(x1, x2, s1, s2))

step_rmsprop_2d ==
  /\ pc = "toy" /\ trainer = "rmsprop_2d" /\ iter < MaxIter
  /\ Iterated(rmsprop_2d(x1, x2, s1, s2))

\* train_2d returns results after its last iteration
return_2d ==
  /\ pc = "toy" /\ trainer \in ToyTrainers /\ iter = MaxIter
  /\ pc' = "done"
  /\ UNCHANGED <<trainer, params, grads, states, hyperparams, hist, runs, states0,
                 used, toyVars, ewmaVars>>

\* variant: the next run goes on from where the earlier one ended
NewToyRun_continued ==
  /\ pc = "done" /\ trainer \in ToyTrainers
  /\ runs < MaxRuns
  /\ \E c \in ToyConfigs :
       /\ c.fn = trainer
       /\ eta' = c.eta
       /\ gamma' = c.gamma
  /\ results' = <<<<x1, x2>>>>
  /\ iter' = 0
  /\ runs' = runs + 1
  /\ pc' = "toy"
  /\ UNCHANGED <<trainer, params, grads, states, hyperparams, hist, states0, used,
                 x1, x2, s1, s2, ewmaVars>>

\* the notebook's next toy run: the cell assigns eta (and gamma) and calls
\* train_2d with the same function again
NewToyRun ==
  /\ pc = "done" /\ trainer \in ToyTrainers
  /\ runs < MaxRuns
  /\ \E c \in ToyConfigs :
       /\ c.fn = trainer
       /\ eta' = c.eta
       /\ gamma' = c.gamma
  /\ \E x \in ToyStarts :
       /\ x1' = x[1] /\ x2' = x[2]
       /\ results' = <<x>>
  /\ s1' = Zero /\ s2' = Zero
  /\ iter' = 0
  /\ runs' = runs + 1
  /\ pc' = "toy"
  /\ UNCHANGED <<trainer, params, grads, states, hyperparams, hist, states0, used,
                 ewmaVars>>

(* --------------------------- the specification -------------------------- *)

Init == InitTrain \/ InitToy

Next ==
  \/ Backward
  \/ call_sgd_momentum
  \/ call_adagrad
  \/ call_rmsprop
  \/ call_adam
  \/ NewRun
  \/ step_gd_2d
  \/ step_momentum_2d
  \/ step_adagrad_2d
  \/ step_rmsprop_2d
  \/ return_2d
  \/ NewToyRun

Spec == Init /\ [][Next]_vars

\* train_2d's loop runs on to its return: the steps of a toy run are not
\* put off for ever
RunToy == pc = "toy" /\ iter < MaxIter /\ iter' = iter + 1

SpecFair == Init /\ [][Next]_vars /\ WF_iter(RunToy) /\ WF_vars(return_2d)

(* ------------------- the runs of twenty iterations ---------------------- *)
(* gd_2d and momentum_2d iterated as train_2d iterates them, for the whole *)
(* length of a run, from train_2d's start and from further points.         *)

\* iterations of a whole run: train_2d's range(20)
MaxDescent == 20

\* train_2d's (-5, -2), a point on the other side of the optimum, and the
\* optimum itself
DescentStarts ==
  {<<Frac(-5, 1), Frac(-2, 1)>>, <<Frac(1, 1), Frac(1, 2)>>, <<Zero, Zero>>}

InitDescent ==
  /\ \E c \in ToyConfigs :
       /\ c.fn \in {"gd_2d", "momentum_2d"}
       /\ trainer = c.fn
       /\ eta = c.eta
       /\ gamma = c.gamma
  /\ \E x \in DescentStarts : x1 = x[1] /\ x2 = x[2]
  /\ s1 = Zero /\ s2 = Zero
  /\ iter = 0
  /\ results = <<<<x1, x2>>>>
  /\ pc = "toy"
  /\ NoTraining
  /\ NoEwma

descend_gd_2d ==
  /\ pc = "toy" /\ trainer = "gd_2d" /\ iter < MaxDescent
  /\ Iterated(gd_2d(x1, x2, s1, s2))

descend_momentum_2d ==
  /\ pc = "toy" /\ trainer = "momentum_2d" /\ iter < MaxDescent
  /\ Iterated(momentum_2d(x1, x2, s1, s2))

NextDescent == descend_gd_2d \/ descend_momentum_2d

\* the loop runs on: the next iteration is not put off for ever
Descend == pc = "toy" /\ iter < MaxDescent /\ iter' = iter + 1

SpecDescent == InitDescent /\ [][NextDescent]_vars /\ WF_iter(Descend)

(* ------------------ adagrad on gradients of any size -------------------- *)
(* adagrad and adagrad_2d as above, with gradients from 0 to 10^10 in      *)
(* magnitude, where eps is lost in s + eps.                                 *)

\* 10^10
Huge == RMul(Frac(10^5, 1), Frac(10^5, 1))

\* what backward may leave in w.grad and b.grad
AnySizeGrads ==
  {<<<<a, b>>, <<c>>>> : a \in {One, Huge}, b \in {Frac(-2, 1), RNeg(Huge)},
                        c \in {Zero, Huge}}

\* where a toy run may start: train_2d's point and one far from the optimum
AnySizeStarts == {<<Frac(-5, 1), Frac(-2, 1)>>, <<Huge, RNeg(Huge)>>}

InitAnySize ==
  \/ trainer = "adagrad" /\ InitTrain
  \/ /\ \E c \in ToyConfigs :
          /\ c.fn = "adagrad_2d"
          /\ trainer = c.fn
          /\ eta = c.eta
          /\ gamma = c.gamma
     /\ \E x \in AnySizeStarts : x1 = x[1] /\ x2 = x[2]
     /\ s1 = Zero /\ s2 = Zero
     /\ iter = 0
     /\ results = <<<<x1, x2>>>>
     /\ pc = "toy"
     /\ NoTraining
     /\ NoEwma

\* the loss's backward pass, whatever the size of the gradient
backward_any_size ==
  /\ pc = "backward"
  /\ trainer = "adagrad"
  /\ calls < MaxCalls
  /\ grads' \in AnySizeGrads
  /\ pc' = "update"
  /\ UNCHANGED <<trainer, params, states, hyperparams, hist, runs, states0, used,
                 toyVars, ewmaVars>>

NextAnySize == backward_any_size \/ call_adagrad \/ step_adagrad_2d

SpecAnySize == InitAnySize /\ [][NextAnySize]_vars

(* ------------------ the exponentially weighted moving average ----------- *)
(* y_t = gamma * y_{t-1} + (1 - gamma) * x_t from y_0 = 0, the recurrence  *)
(* of the text that rmsprop's s and adam's v and s follow; computed in     *)
(* exact fractions.                                                         *)

\* input sequences of every shape up to this length, constant ones up to MaxSteps
MaxVaried == 4
MaxSteps == 20

EwmaGammas == {QFrac(1, 10), QFrac(1, 2), QFrac(9, 10)}
EwmaInputs == {QFrac(1, 1), QFrac(-2, 1)}

\* variant: y_{t-1} enters undecayed
ewma_undecayed(y_, x, g) == QAdd(y_, QMul(QSub(QOne, g), x))

\* variant: the weights of y_{t-1} and x_t exchanged
ewma_weights_swapped(y_, x, g) == QAdd(QMul(QSub(QOne, g), y_), QMul(g, x))

\* variant: the input enters with weight 1
ewma_unweighted(y_, x, g) == QAdd(QMul(g, y_), x)

\* y_t = gamma * y_{t-1} + (1 - gamma) * x_t
ewma(y_, x, g) == QAdd(QMul(g, y_), QMul(QSub(QOne, g), x))

InitEwma ==
  /\ trainer = "ewma" /\ pc = "ewma"
  /\ gamma \in EwmaGammas
  /\ y = QZero /\ xs = <<>>
  /\ x1 = Zero /\ x2 = Zero /\ s1 = Zero /\ s2 = Zero
  /\ eta = Undefined /\ iter = 0 /\ results = <<>>
  /\ NoTraining

\* the input x_t of the current time step arrives
ewma_input(x) ==
  /\ \/ Len(xs) < MaxVaried
     \/ Len(xs) < MaxSteps /\ \A k \in 1..Len(xs) : xs[k] = x
  /\ xs' = Append(xs, x)

\* one time step on the input x
ewma_on(x) ==
  /\ ewma_input(x)
  /\ y' = ewma(y, x, gamma)

ewma_step ==
  /\ pc = "ewma"
  /\ \E x \in EwmaInputs : ewma_on(x)
  /\ UNCHANGED <<trainVars, x1, x2, s1, s2, eta, gamma, iter, results>>

\* time goes on: the next input is not put off for ever
NextInput == pc = "ewma" /\ \E x \in EwmaInputs : ewma_input(x)

SpecEwma == InitEwma /\ [][ewma_step]_vars /\ WF_xs(NextInput)

(* ------------- runs with hyperparameters outside their ranges ----------- *)
(* The rules and the calls around them contain no check of a               *)
(* hyperparameter: a dict with a momentum or gamma outside [0, 1) or a     *)
(* negative lr is passed through as it is.  (eps, beta1 and beta2 are      *)
(* literals of the rules and cannot be configured.)                        *)

OutOfRangeConfigs(tr) ==
  CASE tr = "sgd_momentum" ->
         {[lr |-> Frac(2, 100), momentum |-> One],
          [lr |-> Frac(2, 100), momentum |-> Frac(3, 2)],
          [lr |-> Frac(2, 100), momentum |-> Frac(-1, 2)],
          [lr |-> Frac(-2, 100), momentum |-> Frac(1, 2)]}
    [] tr = "adagrad" -> {[lr |-> Frac(-1, 10)]}
    [] tr = "rmsprop" ->
         {[lr |-> Frac(1, 100), gamma |-> One],
          [lr |-> Frac(-1, 100), gamma |-> Frac(9, 10)]}
    [] tr = "adam" -> {[lr |-> Frac(-1, 100), t |-> 1]}

InitOutOfRange ==
  /\ trainer \in Trainers
  /\ hyperparams \in OutOfRangeConfigs(trainer)
  /\ states = InitStates(trainer)
  /\ states0 = states
  /\ params = InitParams
  /\ grads = <<zeros(FeatureDim), zeros(1)>>
  /\ pc = "backward"
  /\ hist = <<>>
  /\ runs = 0
  /\ used = FALSE
  /\ NoToy

NextTrain ==
  \/ Backward
  \/ call_sgd_momentum
  \/ call_adagrad
  \/ call_rmsprop
  \/ call_adam

SpecOutOfRange == InitOutOfRange /\ [][NextTrain]_vars

(* ------------------------------ properties ------------------------------ *)

Training == trainer \in Trainers

\* C1: adam's time step t is one scalar for all the parameters: it starts at
\* 1 and every call of adam adds exactly 1 to it, however many parameters the
\* call updates, so after k calls t = 1 + k.
AdamTimeStep == trainer = "adam" => hyperparams.t = 1 + calls

\* two calls on the two parameters w and b: t is 3, not 5
AdamTimeStepWitness ==
  trainer = "adam" /\ calls = 2 /\ Len(params) = 2 /\ hyperparams.t = 3

\* what the first call of adam leaves for one element: its gradient g, its
\* accumulators v and s, its value p, started from p0
AdamFirstCallAt(g, v, s, p, p0, lr) ==
  /\ v = RMul(Frac(1, 10), g)
  /\ s = RMul(Frac(1, 1000), RMul(g, g))
  /\ RDiv(v, v_bias_div(1)) = g
  /\ RDiv(s, s_bias_div(1)) = RMul(g, g)
  /\ p = RSub(p0, RDiv(RMul(lr, g), RAdd(RAbs(g), eps)))
  /\ g = One =>
       /\ v = Frac(1, 10)
       /\ s = Frac(1, 1000)
       /\ RDiv(v, v_bias_div(1)) = One
       /\ RDiv(s, s_bias_div(1)) = One
       /\ p = RSub(p0, RDiv(lr, RAdd(One, eps)))

\* C2: the first call of adam (t = 1) from the all-zero state leaves v = 0.1 g
\* and s = 0.001 g^2, whose bias-corrected values are g and g^2, and moves the
\* parameter by lr * g / (|g| + eps); for g = 1 these are v = 0.1, s = 0.001,
\* corrected values 1 and 1, and a move of lr / (1 + eps).
AdamFirstCall ==
  (trainer = "adam" /\ calls = 1) =>
     \A i \in 1..Len(params) : \A j \in 1..Len(params[i]) :
        AdamFirstCallAt(hist[1][i][j], states[i][1][j], states[i][2][j],
                        params[i][j], InitParams[i][j], hyperparams.lr)

\* after the first call with gradient 1 on the first element of w
AdamFirstCallWitness ==
  /\ trainer = "adam" /\ calls = 1
  /\ hist[1][1][1] = One
  /\ states[1][1][1] = Frac(1, 10)
  /\ states[1][2][1] = Frac(1, 1000)

\* lr / sqrt(s + eps)
EffectiveRate(lr, s) == RDiv(lr, RSqrt(RAdd(s, eps)))

NotLess(lr, s, t) == RLe(s, t) /\ RLe(EffectiveRate(lr, t), EffectiveRate(lr, s))

AdagradStep ==
  (trainer = "adagrad" /\ pc = "update") =>
     \A i \in 1..Len(states) : \A j \in 1..Len(states[i]) :
        NotLess(hyperparams.lr, states[i][j], states'[i][j])

Adagrad2dStep ==
  (trainer = "adagrad_2d" /\ pc = "toy") =>
     NotLess(eta, s1, s1') /\ NotLess(eta, s2, s2')

\* C3: in adagrad and in adagrad_2d an update never decreases an element of
\* the accumulator s, whatever the gradient, and so never increases the
\* element's effective learning rate lr / sqrt(s + eps).
AdagradMonotone == [][AdagradStep /\ Adagrad2dStep]_vars

\* two calls of adagrad with gradients 1 or -1 on the first element of w: s = 2
AdagradMonotoneWitness ==
  /\ trainer = "adagrad" /\ calls = 2
  /\ states[1][1] = Frac(2, 1)
  /\ RAbs(hist[1][1][1]) = One

\* the calls of this run all saw a gradient of one magnitude on element j of
\* parameter i
ConstantMagnitude(i, j) ==
  \A k \in 1..calls : RAbs(hist[k][i][j]) = RAbs(hist[1][i][j])

\* c * c for the magnitude c of that gradient
SquaredMagnitude(i, j) == RMul(hist[1][i][j], hist[1][i][j])

\* C4: under gradients of one magnitude c, from s = 0 and with gamma in
\* [0, 1), every element of rmsprop's accumulator stays at or below c * c at
\* every step, while adagrad's is t * c * c after t steps.
ConstantGradientAccumulators ==
  /\ (/\ trainer = "rmsprop" /\ calls >= 1
      /\ RLe(Zero, hyperparams.gamma) /\ RLt(hyperparams.gamma, One)) =>
        \A i \in 1..Len(states) : \A j \in 1..Len(states[i]) :
           ConstantMagnitude(i, j) => RLe(states[i][j], SquaredMagnitude(i, j))
  /\ (trainer = "adagrad" /\ calls >= 1) =>
        \A i \in 1..Len(states) : \A j \in 1..Len(states[i]) :
           ConstantMagnitude(i, j) =>
              states[i][j] = RMul(Frac(calls, 1), SquaredMagnitude(i, j))

\* rmsprop with gamma = 0.9 after gradients 1 or -1 twice: s = 0.19 < 1
ConstantGradientWitness ==
  /\ trainer = "rmsprop" /\ calls = 2
  /\ hyperparams.gamma = Frac(9, 10)
  /\ ConstantMagnitude(1, 1)
  /\ RAbs(hist[1][1][1]) = One
  /\ states[1][1] = Frac(19, 100)

\* C5: with gamma = 0 the momentum rule is plain gradient descent, whatever
\* the point, the gradient and the velocity before: momentum_2d gives the
\* next (x1, x2) of gd_2d with the same eta, and sgd_momentum with
\* momentum = 0 gives p - lr * grad.
MomentumZeroIsGradientDescent ==
  /\ (trainer = "momentum_2d" /\ gamma = Zero) =>
        /\ momentum_2d(x1, x2, s1, s2)[1] = gd_2d(x1, x2, s1, s2)[1]
        /\ momentum_2d(x1, x2, s1, s2)[2] = gd_2d(x1, x2, s1, s2)[2]
  /\ (trainer = "sgd_momentum" /\ pc = "update" /\ hyperparams.momentum = Zero) =>
        \A i \in 1..Len(params) : \A j \in 1..Len(params[i]) :
           sgd_momentum(params, grads, states, hyperparams).params[i][j]
             = RSub(params[i][j], RMul(hyperparams.lr, grads[i][j]))

\* momentum_2d with gamma = 0 about to step from a nonzero velocity
MomentumZeroWitness ==
  /\ trainer = "momentum_2d" /\ gamma = Zero
  /\ iter = 2
  /\ s1 # Zero /\ s2 # Zero

IsZeros(a) == \A j \in 1..Len(a) : a[j] = Zero

\* every accumulator in states is all-zero
AllZeroStates ==
  \A i \in 1..Len(states) :
     IF trainer = "adam" THEN IsZeros(states[i][1]) /\ IsZeros(states[i][2])
     ELSE IsZeros(states[i])

Reinitialised ==
  /\ Training => InitStates(trainer) = states0
  /\ runs' # runs => (states' = states0 /\ AllZeroStates')

\* C6: the initialisers return all-zero accumulators whatever earlier updates
\* did to a state returned before: a call in any state returns what the first
\* call returned, and the state a new run starts from, after any number of
\* updates or straight after another new run, is that all-zero state.
ReinitialisationIsZero == [][Reinitialised]_vars

\* a second adam run started after the first one had updated its state
ReinitialisationWitness ==
  /\ trainer = "adam" /\ runs = 1 /\ used
  /\ calls = 0
  /\ states = states0 /\ AllZeroStates

\* C7: with t started at 1, adam evaluates its bias correction with t >= 1
\* only: the divisors 1 - beta1^t and 1 - beta2^t are above 0 and at most 1.
AdamBiasDivisors ==
  trainer = "adam" =>
     /\ hyperparams.t >= 1
     /\ RLt(Zero, v_bias_div(hyperparams.t)) /\ RLe(v_bias_div(hyperparams.t), One)
     /\ RLt(Zero, s_bias_div(hyperparams.t)) /\ RLe(s_bias_div(hyperparams.t), One)

\* adam about to be called for the second time, with t = 2
AdamBiasDivisorsWitness ==
  trainer = "adam" /\ pc = "update" /\ calls = 1 /\ hyperparams.t = 2

\* the rule the run drives
Rule(tr, P, G, S, H) ==
  CASE tr = "sgd_momentum" -> sgd_momentum(P, G, S, H)
    [] tr = "adagrad" -> adagrad(P, G, S, H)
    [] tr = "rmsprop" -> rmsprop(P, G, S, H)
    [] tr = "adam" -> adam(P, G, S, H)

\* another tensor of the shape of a, different in every element
Other(a) == [j \in 1..Len(a) |-> RAdd(RAbs(a[j]), One)]

OtherState(tr, s) == IF tr = "adam" THEN <<Other(s[1]), Other(s[2])>> ELSE Other(s)

\* the call with parameter k's value, gradient and accumulators changed
CallWithOther(k) ==
  Rule(trainer, [params EXCEPT ![k] = Other(@)], [grads EXCEPT ![k] = Other(@)],
       [states EXCEPT ![k] = OtherState(trainer, @)], hyperparams)

\* the calls r and q leave the same value and accumulators for every
\* parameter but k
SameButAt(k, r, q) ==
  \A i \in (1..Len(r.params)) \ {k} :
     q.params[i] = r.params[i] /\ q.states[i] = r.states[i]

SameButOther(r) == \A k \in 1..Len(r.params) : SameButAt(k, r, CallWithOther(k))

\* C8: in one call of sgd_momentum, adagrad, rmsprop or adam the new value
\* and accumulators of a parameter do not depend on another parameter:
\* changing the other's value, gradient and accumulators leaves them as they are.
NoCrossParameterInteraction ==
  (Training /\ pc = "update") =>
     SameButOther(Rule(trainer, params, grads, states, hyperparams))

\* adam about to be called on nonzero accumulators
NoCrossParameterWitness ==
  /\ trainer = "adam" /\ pc = "update" /\ calls = 1
  /\ ~AllZeroStates
  /\ CallWithOther(1).params[1] # adam(params, grads, states, hyperparams).params[1]

\* lr >= 0, and momentum and gamma in [0, 1)
HyperparamsInRange ==
  /\ RLe(Zero, hyperparams.lr)
  /\ trainer = "sgd_momentum" =>
       RLe(Zero, hyperparams.momentum) /\ RLt(hyperparams.momentum, One)
  /\ trainer = "rmsprop" =>
       RLe(Zero, hyperparams.gamma) /\ RLt(hyperparams.gamma, One)

\* C10: a hyperparameter outside its range (momentum or gamma outside [0, 1),
\* lr < 0) is rejected before any update: no call of a rule has happened with
\* such a value.
OutOfRangeNeverUpdates == (Training /\ calls > 0) => HyperparamsInRange

(* ------------------- properties of the moving average ------------------- *)

\* the average has been fed the constant input c at every step so far
ConstantInput(c) == pc = "ewma" /\ xs # <<>> /\ \A k \in 1..Len(xs) : xs[k] = c

\* |c - y_t|
Gap(c) == QAbs(QSub(c, y))

\* gamma = 0.9 and x_t = 1 for t = 1..20
TwentyOnes == gamma = QFrac(9, 10) /\ Len(xs) = 20 /\ ConstantInput(QOne)

\* C11 as stated: with gamma = 0.9 and constant input 1 from y_0 = 0,
\* |y_20 - 1| < 1e-3.
EwmaTwentyStepsWithinThousandth == TwentyOnes => QLt(Gap(QOne), QFrac(1, 1000))

\* C11: with gamma = 0.9 and constant input 1 from y_0 = 0, after 20 steps
\* |y_20 - 1| = 0.9^20, which is between 0.12 and 0.13 (and so not below 1e-3).
EwmaTwentyStepsGap ==
  TwentyOnes =>
     /\ QEq(Gap(QOne), QPow(QFrac(9, 10), 20))
     /\ QLt(QFrac(12, 100), Gap(QOne))
     /\ QLt(Gap(QOne), QFrac(13, 100))

EwmaTwentyStepsWitness == TwentyOnes /\ QLt(y, QOne)


\* |c - y_t| = gamma^t * |c|
GapIsPower(c) == QEq(Gap(c), QMul(QPow(gamma, Len(xs)), QAbs(c)))

\* y_t lies between 0 and c
NoOvershoot(c) == QLe(QZero, QMul(y, c)) /\ QLe(QAbs(y), QAbs(c))

\* one more step on the same input multiplies the gap by gamma
GapShrinks(c) ==
  (ConstantInput(c) /\ xs' = Append(xs, c)) =>
     QEq(QAbs(QSub(c, y')), QMul(gamma, Gap(c)))

\* tolerances that gamma = 0.9 meets within MaxSteps steps
Tolerances == {QFrac(1, 2), QFrac(1, 4)}

Within(tol) == \A c \in EwmaInputs : ConstantInput(c) => QLt(Gap(c), tol)

\* C12: for gamma in (0, 1) and constant input c the average started at 0
\* converges to c: the gap |c - y_t| is gamma^t * |c| and y_t never overshoots
\* c, the gap shrinks by the factor gamma at every step, and for every
\* tolerance there is a step after which the gap stays below it.
EwmaConverges ==
  /\ [](\A c \in EwmaInputs : ConstantInput(c) => (GapIsPower(c) /\ NoOvershoot(c)))
  /\ [][\A c \in EwmaInputs : GapShrinks(c)]_vars
  /\ \A tol \in Tolerances : <>[]Within(tol)

\* twenty steps on the input -2 at gamma = 0.5: the gap is 2 * 0.5^20
EwmaConvergesWitness ==
  /\ gamma = QFrac(1, 2) /\ Len(xs) = 20 /\ ConstantInput(QFrac(-2, 1))
  /\ QLt(Gap(QFrac(-2, 1)), QFrac(1, 1000))
  /\ QLt(QZero, Gap(QFrac(-2, 1)))


\* the weight (1 - gamma) * gamma^i of the sample i steps back
Weight(i) == QMul(QSub(QOne, gamma), QPow(gamma, i))

\* the sample i steps back with its weight
Term(i) == QMul(Weight(i), xs[Len(xs) - i])

\* the weighted samples from lo to hi steps back, added up
RECURSIVE WeightedSum(_, _)
WeightedSum(lo, hi) ==
  IF lo > hi THEN QZero
  ELSE IF lo = hi THEN Term(lo)
  ELSE QAdd(WeightedSum(lo, (lo + hi) \div 2), WeightedSum((lo + hi) \div 2 + 1, hi))

\* their weights added up
RECURSIVE WeightTotal(_, _)
WeightTotal(lo, hi) ==
  IF lo > hi THEN QZero
  ELSE IF lo = hi THEN Weight(lo)
  ELSE QAdd(WeightTotal(lo, (lo + hi) \div 2), WeightTotal((lo + hi) \div 2 + 1, hi))

\* 1 / (1 - gamma) is a whole number of steps
IsWindow(n) == QEq(QFrac(n, 1), QDiv(QOne, QSub(QOne, gamma)))
HasWindow == \E n \in 1..(MaxSteps + 1) : IsWindow(n)
Window == CHOOSE n \in 1..(MaxSteps + 1) : IsWindow(n)

\* the last 1 / (1 - gamma) samples with their weights, added up
WindowSum == WeightedSum(0, Window - 1)

\* the same with the weights scaled to add up to 1
WindowAverage == QDiv(WindowSum, WeightTotal(0, Window - 1))

\* at least 1 / (1 - gamma) steps have been taken
WindowFull == pc = "ewma" /\ HasWindow /\ Len(xs) >= Window

\* C13 as stated: after k steps from y_0 = 0, y_k equals the normalized sum of
\* the last 1 / (1 - gamma) samples with exponentially decaying weights
\* (whether the weights are scaled by 1 - gamma or to add up to 1).
EwmaIsWindowAverage == WindowFull => (QEq(y, WindowSum) \/ QEq(y, WindowAverage))

\* the samples older than the window add at most gamma^(1/(1-gamma)) times
\* the largest sample magnitude
OlderSamplesSmall ==
  \E m \in 1..Len(xs) :
     /\ \A j \in 1..Len(xs) : QLe(QAbs(xs[j]), QAbs(xs[m]))
     /\ QLe(QAbs(QSub(y, WindowSum)), QMul(QPow(gamma, Window), QAbs(xs[m])))

\* C13: after k steps from y_0 = 0, y_k equals the sum of all k samples with
\* the weights (1 - gamma) * gamma^i for the sample i steps back, which fall
\* with age and add up to 1 - gamma^k; the last 1 / (1 - gamma) samples give
\* y_k up to gamma^(1/(1-gamma)) times the largest sample magnitude.
EwmaIsWeightedSum ==
  pc = "ewma" =>
     /\ QEq(y, WeightedSum(0, Len(xs) - 1))
     /\ QEq(WeightTotal(0, Len(xs) - 1), QSub(QOne, QPow(gamma, Len(xs))))
     /\ \A i \in 0..(Len(xs) - 2) : QLt(Weight(i + 1), Weight(i))
     /\ WindowFull => OlderSamplesSmall

\* three steps at gamma = 0.5, window 2, on the inputs 1, -2, 1: the oldest
\* sample still counts
EwmaWeightedSumWitness ==
  /\ pc = "ewma" /\ gamma = QFrac(1, 2)
  /\ xs = <<QFrac(1, 1), QFrac(-2, 1), QFrac(1, 1)>>
  /\ Window = 2
  /\ ~QEq(y, WindowSum)
  /\ QEq(y, QFrac(1, 8))


(* ---------------------- properties of the toy runner -------------------- *)

ToyRun == trainer \in ToyTrainers

\* the rule train_2d was given, applied once
ToyRule(fn, a1, a2, b1, b2) ==
  CASE fn = "gd_2d" -> gd_2d(a1, a2, b1, b2)
    [] fn = "momentum_2d" -> momentum_2d(a1, a2, b1, b2)
    [] fn = "adagrad_2d" -> adagrad_2d(a1, a2, b1, b2)
    [] fn = "rmsprop_2d" -> rmsprop_2d(a1, a2, b1, b2)

\* results is the initial point (-5, -2) followed by one point per iteration
\* so far, the last of them the current point; a run begins with zero rule
\* state and has returned only after MaxIter iterations
ToyRunShape ==
  ToyRun =>
     /\ Len(results) = iter + 1
     /\ results[1] = <<Frac(-5, 1), Frac(-2, 1)>>
     /\ results[Len(results)] = <<x1, x2>>
     /\ iter <= MaxIter
     /\ pc = "done" => iter = MaxIter
     /\ iter = 0 => (s1 = Zero /\ s2 = Zero)

\* an iteration applies the rule once to the previous point and state and
\* appends the new point
ToyIteration(r) ==
  /\ x1' = r[1] /\ x2' = r[2] /\ s1' = r[3] /\ s2' = r[4]
  /\ results' = Append(results, <<r[1], r[2]>>)

\* a step of a run is one iteration, the return, or the start of the next
\* run from the initial point with zero state and no point of the earlier run
ToyStep ==
  ToyRun =>
     /\ iter' = iter + 1 => ToyIteration(ToyRule(trainer, x1, x2, s1, s2))
     /\ iter' # iter + 1 =>
          \/ pc' = "done" /\ results' = results
          \/ /\ runs' = runs + 1 /\ iter' = 0
             /\ results' = <<<<Frac(-5, 1), Frac(-2, 1)>>>>
             /\ <<x1', x2', s1', s2'>> = <<Frac(-5, 1), Frac(-2, 1), Zero, Zero>>

\* C15: every run of the toy runner starts from the same fixed initial point
\* with zero rule state, whatever an earlier run did; it yields the initial
\* point followed by one point per iteration in order, each the rule applied
\* once to the previous point and state; and it ends after exactly the given
\* number of iterations.
ToyRunnerTrajectory ==
  /\ []ToyRunShape
  /\ [][ToyStep]_vars
  /\ [](pc = "toy" => <>(pc = "done" /\ iter = MaxIter))

\* a second run of adagrad_2d has returned
ToyRunnerWitness ==
  /\ trainer = "adagrad_2d" /\ pc = "done" /\ runs = 1
  /\ Len(results) = MaxIter + 1
  /\ results[1] # results[2]
  /\ s1 # Zero


(* ---------------------- properties of the update rules ------------------ *)

\* the step is a call of the rule of the run
CallStep == Training /\ Len(hist') = Len(hist) + 1

\* the step is an iteration of a toy run
ToyStepTaken == ToyRun /\ iter' = iter + 1

\* p - lr * g / sqrt(s + eps)
EpsInsideRoot(p, lr, g, s) == RSub(p, RDiv(RMul(lr, g), RSqrt(RAdd(s, eps))))

\* x - eta / sqrt(s + eps) * g
EpsInsideRoot2d(x, g, s) == RSub(x, RMul(RDiv(eta, RSqrt(RAdd(s, eps))), g))

\* p - lr * v_hat / (sqrt(s_hat) + eps)
EpsOnRoot(p, lr, vhat, shat) == RSub(p, RDiv(RMul(lr, vhat), RAdd(RSqrt(shat), eps)))

\* every element of every parameter after a call of adagrad or rmsprop
EpsInsideRootStep ==
  \A i \in 1..Len(params) : \A j \in 1..Len(params[i]) :
     params'[i][j] =
        EpsInsideRoot(params[i][j], hyperparams.lr, grads[i][j], states'[i][j])

\* every element of every parameter after a call of adam
EpsOnRootStep ==
  \A i \in 1..Len(params) : \A j \in 1..Len(params[i]) :
     params'[i][j] =
        EpsOnRoot(params[i][j], hyperparams.lr,
                  RDiv(states'[i][1][j], RSub(One, RPow(beta1, hyperparams.t))),
                  RDiv(states'[i][2][j], RSub(One, RPow(beta2, hyperparams.t))))

EpsInsideRoot2dStep ==
  /\ x1' = EpsInsideRoot2d(x1, RMul(Frac(2, 10), x1), s1')
  /\ x2' = EpsInsideRoot2d(x2, RMul(Frac(4, 1), x2), s2')

EpsPlacementStep ==
  /\ (CallStep /\ trainer \in {"adagrad", "rmsprop"}) => EpsInsideRootStep
  /\ (CallStep /\ trainer = "adam") => EpsOnRootStep
  /\ (ToyStepTaken /\ trainer \in {"adagrad_2d", "rmsprop_2d"}) => EpsInsideRoot2dStep

\* C16: adagrad and rmsprop, and adagrad_2d and rmsprop_2d, divide by
\* sqrt(s + eps), eps added inside the square root; adam divides by
\* sqrt(s_hat) + eps, eps added to the root.
EpsPlacement == [][EpsPlacementStep]_vars

\* the first call of adam has moved the first weight by
\* lr * v_hat / (sqrt(s_hat) + eps), which is not lr * v_hat / sqrt(s_hat + eps)
EpsPlacementWitness ==
  /\ trainer = "adam" /\ calls = 1 /\ runs = 0
  /\ params[1][1] =
       EpsOnRoot(InitParams[1][1], hyperparams.lr,
                 RDiv(states[1][1][1], RSub(One, beta1)),
                 RDiv(states[1][2][1], RSub(One, beta2)))
  /\ params[1][1] #
       EpsInsideRoot(InitParams[1][1], hyperparams.lr,
                     RDiv(states[1][1][1], RSub(One, beta1)),
                     RDiv(states[1][2][1], RSub(One, beta2)))


\* the accumulator (for adam each of the pair) of parameter i has its shape
SameShape(i) ==
  IF trainer = "adam"
  THEN /\ Len(states[i]) = 2
       /\ Len(states[i][1]) = Len(params[i])
       /\ Len(states[i][2]) = Len(params[i])
  ELSE Len(states[i]) = Len(params[i])

\* C17: every accumulator has the shape of its parameter after initialisation
\* and after any number of updates, one accumulator per parameter, for adam a
\* pair (v, s) per parameter: no update resizes, adds or removes one.
AccumulatorShapes ==
  Training =>
     /\ Len(states) = Len(params)
     /\ \A i \in 1..Len(params) : SameShape(i)

\* two calls of adam have updated the pair of w, of FeatureDim elements
AccumulatorShapesWitness ==
  /\ trainer = "adam" /\ calls = 2
  /\ ~AllZeroStates
  /\ Len(params[1]) = FeatureDim /\ Len(states[1][2]) = FeatureDim
  /\ Len(params[2]) = 1 /\ Len(states[2][1]) = 1


\* parameter i after the call is what the time step t gives: v and s of the
\* pair divided by 1 - beta1^t and 1 - beta2^t
BiasCorrectedAt(i, t) ==
  \A j \in 1..Len(params[i]) :
     params'[i][j] =
        EpsOnRoot(params[i][j], hyperparams.lr,
                  RDiv(states'[i][1][j], RSub(One, RPow(beta1, t))),
                  RDiv(states'[i][2][j], RSub(One, RPow(beta2, t))))

\* the call of adam that is the k-th of its run
AdamCall(k) == CallStep /\ trainer = "adam" /\ Len(hist') = k

SharedTimeStep ==
  \A k \in 1..(MaxCalls + 1) :
     AdamCall(k) =>
        /\ hyperparams.t = k
        /\ \A i \in 1..Len(params) : BiasCorrectedAt(i, k)
        /\ hyperparams'.t = k + 1

\* C18: within one call of adam every parameter's bias correction uses the
\* same t, the value at the entry of the call, t being incremented after the
\* loop over the parameters; in a run started at t = 1 the k-th call uses the
\* exponent k for all parameters.
AdamSharedTimeStep == [][SharedTimeStep]_vars

\* the second call of adam has moved both w and b, and t is 3
AdamSharedTimeStepWitness ==
  /\ trainer = "adam" /\ calls = 2 /\ hyperparams.t = 3
  /\ hist[2][2][1] # Zero /\ hist[2][1][1] # Zero
  /\ params[2][1] # InitParams[2][1]
  /\ states[2][1][1] # Zero


\* the accumulator of element j of parameter i, from its value and the
\* gradient before the call
FreshMomentum(i, j) ==
  RAdd(RMul(hyperparams.momentum, states[i][j]), RMul(hyperparams.lr, grads[i][j]))

FreshAdagrad(i, j) == RAdd(states[i][j], RMul(grads[i][j], grads[i][j]))

FreshRmsprop(i, j) ==
  RAdd(RMul(hyperparams.gamma, states[i][j]),
       RMul(RSub(One, hyperparams.gamma), RMul(grads[i][j], grads[i][j])))

FreshAdamV(i, j) ==
  RAdd(RMul(beta1, states[i][1][j]), RMul(RSub(One, beta1), grads[i][j]))

FreshAdamS(i, j) ==
  RAdd(RMul(beta2, states[i][2][j]),
       RMul(RSub(One, beta2), RMul(grads[i][j], grads[i][j])))

\* the accumulator after the call is the fresh one, and the parameter has
\* moved by what the fresh accumulator gives
AccumulatorThenParameter(i, j) ==
  CASE trainer = "sgd_momentum" ->
         /\ states'[i][j] = FreshMomentum(i, j)
         /\ params'[i][j] = RSub(params[i][j], FreshMomentum(i, j))
    [] trainer = "adagrad" ->
         /\ states'[i][j] = FreshAdagrad(i, j)
         /\ params'[i][j] =
              EpsInsideRoot(params[i][j], hyperparams.lr, grads[i][j], FreshAdagrad(i, j))
    [] trainer = "rmsprop" ->
         /\ states'[i][j] = FreshRmsprop(i, j)
         /\ params'[i][j] =
              EpsInsideRoot(params[i][j], hyperparams.lr, grads[i][j], FreshRmsprop(i, j))
    [] trainer = "adam" ->
         /\ states'[i][1][j] = FreshAdamV(i, j)
         /\ states'[i][2][j] = FreshAdamS(i, j)
         /\ params'[i][j] =
              EpsOnRoot(params[i][j], hyperparams.lr,
                        RDiv(FreshAdamV(i, j), RSub(One, RPow(beta1, hyperparams.t))),
                        RDiv(FreshAdamS(i, j), RSub(One, RPow(beta2, hyperparams.t))))

\* the gradient of f_2d at the point before the iteration
Grad1 == RMul(Frac(2, 10), x1)
Grad2 == RMul(Frac(4, 1), x2)

\* gamma * v + eta * c * x, c * x the gradient at x
FreshVelocity(v, c, x) == RAdd(RMul(gamma, v), RMul(RMul(eta, c), x))
FreshSquares(s, g) == RAdd(s, RPow(g, 2))
FreshAverage(s, g) == RAdd(RMul(gamma, s), RMul(RSub(One, gamma), RPow(g, 2)))

AccumulatorThenPoint ==
  CASE trainer = "momentum_2d" ->
         /\ s1' = FreshVelocity(s1, Frac(2, 10), x1)
         /\ s2' = FreshVelocity(s2, Frac(4, 1), x2)
         /\ x1' = RSub(x1, FreshVelocity(s1, Frac(2, 10), x1))
         /\ x2' = RSub(x2, FreshVelocity(s2, Frac(4, 1), x2))
    [] trainer = "adagrad_2d" ->
         /\ s1' = FreshSquares(s1, Grad1) /\ s2' = FreshSquares(s2, Grad2)
         /\ x1' = EpsInsideRoot2d(x1, Grad1, FreshSquares(s1, Grad1))
         /\ x2' = EpsInsideRoot2d(x2, Grad2, FreshSquares(s2, Grad2))
    [] trainer = "rmsprop_2d" ->
         /\ s1' = FreshAverage(s1, Grad1) /\ s2' = FreshAverage(s2, Grad2)
         /\ x1' = EpsInsideRoot2d(x1, Grad1, FreshAverage(s1, Grad1))
         /\ x2' = EpsInsideRoot2d(x2, Grad2, FreshAverage(s2, Grad2))
    [] trainer = "gd_2d" -> TRUE

AccumulatorFirstStep ==
  /\ CallStep =>
       \A i \in 1..Len(params) : \A j \in 1..Len(params[i]) :
          AccumulatorThenParameter(i, j)
  /\ ToyStepTaken => AccumulatorThenPoint

\* C19: in sgd_momentum, adagrad, rmsprop, adam and the 2-D versions a step
\* updates the accumulator first, from its previous value and the gradient at
\* the parameter before the step, and then the parameter, with the updated
\* accumulator and not the previous one.
AccumulatorFirst == [][AccumulatorFirstStep]_vars

\* the first call of rmsprop has moved the first weight by what the updated
\* s gives, which is not what the previous s = 0 gives
AccumulatorFirstWitness ==
  /\ trainer = "rmsprop" /\ calls = 1 /\ runs = 0
  /\ states[1][1] # Zero
  /\ params[1][1] =
       EpsInsideRoot(InitParams[1][1], hyperparams.lr, hist[1][1][1], states[1][1])
  /\ params[1][1] #
       EpsInsideRoot(InitParams[1][1], hyperparams.lr, hist[1][1][1], Zero)


\* (1 - beta1) * beta1^(t - k): the weight in v_t of the gradient of call k
PastWeight(t, k) == RMul(RSub(One, beta1), RPow(beta1, t - k))

\* the weights of the calls 1..k in v_t, added up
RECURSIVE PastWeights(_, _)
PastWeights(t, k) ==
  IF k = 0 THEN Zero ELSE RAdd(PastWeights(t, k - 1), PastWeight(t, k))

\* the gradients of the calls 1..k on element j of parameter i, weighted
RECURSIVE PastGradients(_, _, _)
PastGradients(i, j, k) ==
  IF k = 0 THEN Zero
  ELSE RAdd(PastGradients(i, j, k - 1), RMul(PastWeight(calls, k), hist[k][i][j]))

\* every call of the run so far had the same gradient on the element
ConstantGradient(i, j) ==
  calls >= 1 /\ \A k \in 1..calls : hist[k][i][j] = hist[1][i][j]

\* v / (1 - beta1^t) = g and s / (1 - beta2^t) = g * g after t = calls calls
BiasCorrectedIsGradient(i, j) ==
  /\ RDiv(states[i][1][j], RSub(One, RPow(beta1, calls))) = hist[1][i][j]
  /\ RDiv(states[i][2][j], RSub(One, RPow(beta2, calls))) =
       RMul(hist[1][i][j], hist[1][i][j])

\* C20: in a run of adam from zero state and t = 1, after t calls
\* v = (1 - beta1) * sum over i of beta1^(t - i) * g_i, the weights adding up to
\* 1 - beta1^t, so that under a constant gradient g the bias-corrected v is g
\* and the bias-corrected s is g * g after every call.
AdamWeightsOfPastGradients ==
  trainer = "adam" =>
     /\ PastWeights(calls, calls) = RSub(One, RPow(beta1, calls))
     /\ \A i \in 1..Len(params) : \A j \in 1..Len(params[i]) :
           /\ states[i][1][j] = PastGradients(i, j, calls)
           /\ ConstantGradient(i, j) => BiasCorrectedIsGradient(i, j)

\* two calls of adam with the gradient -2 on the second weight: v / (1 - 0.81)
\* is -2 and s / (1 - 0.998001) is 4
AdamWeightsWitness ==
  /\ trainer = "adam" /\ calls = 2
  /\ hist[1][1][2] = Frac(-2, 1) /\ hist[2][1][2] = Frac(-2, 1)
  /\ states[1][1][2] = Frac(-38, 100)
  /\ RDiv(states[1][2][2], RSub(One, RPow(beta2, 2))) = Frac(4, 1)


\* lr * g * (1 - momentum^t) / (1 - momentum): the velocity after t calls
\* with the gradient g, from zero
VelocityAfter(t, g) ==
  RDiv(RMul(RMul(hyperparams.lr, g), RSub(One, RPow(hyperparams.momentum, t))),
       RSub(One, hyperparams.momentum))

\* lr * |g| / (1 - momentum)
VelocityLimit(g) == RDiv(RMul(hyperparams.lr, RAbs(g)), RSub(One, hyperparams.momentum))

\* the multiple of lr * |g| the text names for the momentum: 2 for 0.5, 10 for 0.9
NamedLimit(g) ==
  /\ hyperparams.momentum = Frac(1, 2) =>
       VelocityLimit(g) = RMul(Frac(2, 1), RMul(hyperparams.lr, RAbs(g)))
  /\ hyperparams.momentum = Frac(9, 10) =>
       VelocityLimit(g) = RMul(Frac(10, 1), RMul(hyperparams.lr, RAbs(g)))

\* the velocity of element j of parameter i under its constant gradient
VelocityClosedForm(i, j) ==
  /\ states[i][j] = VelocityAfter(calls, hist[1][i][j])
  /\ RLe(RAbs(states[i][j]), VelocityLimit(hist[1][i][j]))
  /\ NamedLimit(hist[1][i][j])

\* one more call with the same gradient does not shrink the velocity
VelocityGrows(i, j) ==
  (ConstantGradient(i, j) /\ grads[i][j] = hist[1][i][j]) =>
     RLe(RAbs(states[i][j]), RAbs(states'[i][j]))

MomentumVelocityStep ==
  (CallStep /\ trainer = "sgd_momentum") =>
     \A i \in 1..Len(states) : \A j \in 1..Len(states[i]) : VelocityGrows(i, j)

\* C21: under a constant gradient g and from zero velocity, sgd_momentum's
\* velocity after t calls is lr * g * (1 - momentum^t) / (1 - momentum); its
\* magnitude grows from call to call and never exceeds lr * |g| / (1 - momentum),
\* which is 2 * lr * |g| for momentum 0.5 and 10 * lr * |g| for momentum 0.9.
MomentumVelocity ==
  /\ [](trainer = "sgd_momentum" =>
          \A i \in 1..Len(states) : \A j \in 1..Len(states[i]) :
             ConstantGradient(i, j) => VelocityClosedForm(i, j))
  /\ [][MomentumVelocityStep]_vars

\* two calls at momentum 0.9 with the gradient 3 on b: v = lr * 3 * 1.9
MomentumVelocityWitness ==
  /\ trainer = "sgd_momentum" /\ calls = 2
  /\ hyperparams.momentum = Frac(9, 10)
  /\ hist[1][2][1] = Frac(3, 1) /\ hist[2][2][1] = Frac(3, 1)
  /\ states[2][1] = RMul(hyperparams.lr, Frac(57, 10))
  /\ RLt(RMul(hyperparams.lr, Frac(3, 1)), states[2][1])


\* t lies between a and b, whichever of them is the larger
Between(a, t, b) ==
  \/ RLe(a, t) /\ RLe(t, b)
  \/ RLe(b, t) /\ RLe(t, a)

\* the new accumulator t lies between the previous s and the squared gradient
\* q, and below s when q is below s
TowardsSquare(s, q, t) == Between(s, t, q) /\ (RLt(q, s) => RLt(t, s))

RmspropAccumulatorStep ==
  /\ (CallStep /\ trainer = "rmsprop") =>
       \A i \in 1..Len(states) : \A j \in 1..Len(states[i]) :
          TowardsSquare(states[i][j], RMul(grads[i][j], grads[i][j]), states'[i][j])
  /\ (ToyStepTaken /\ trainer = "rmsprop_2d") =>
       /\ TowardsSquare(s1, RPow(Grad1, 2), s1')
       /\ TowardsSquare(s2, RPow(Grad2, 2), s2')

\* C22: rmsprop's and rmsprop_2d's new accumulator lies between the previous
\* accumulator and the current squared gradient, both included, for gamma in
\* [0, 1), and is below the previous one whenever the squared gradient is; so
\* the effective learning rate lr / sqrt(s + eps) can rise, unlike adagrad's.
RmspropAccumulatorBetween == [][RmspropAccumulatorStep]_vars

\* after the gradients 3 and then 0 on b, s has fallen below what the first
\* call left, (1 - gamma) * 9, and the effective learning rate has risen
RmspropAccumulatorWitness ==
  /\ trainer = "rmsprop" /\ calls = 2
  /\ hist[1][2][1] = Frac(3, 1) /\ hist[2][2][1] = Zero
  /\ RLt(states[2][1], RMul(RSub(One, hyperparams.gamma), Frac(9, 1)))
  /\ RLt(EffectiveRate(hyperparams.lr, RMul(RSub(One, hyperparams.gamma), Frac(9, 1))),
         EffectiveRate(hyperparams.lr, states[2][1]))


(* ------------------ properties of the runs of twenty iterations --------- *)

\* 1 - 4 * eta
Factor2 == RSub(One, RMul(Frac(4, 1), eta))

\* an iteration of gd_2d
GdStepTaken == trainer = "gd_2d" /\ iter' = iter + 1

\* x2 of the point the run started from
Start2 == results[1][2]

GdFactorStep ==
  GdStepTaken =>
     /\ x2' = RMul(Factor2, x2)
     /\ eta = Frac(4, 10) => RAbs(x2') = RMul(Frac(6, 10), RAbs(x2))
     /\ eta = Frac(6, 10) =>
          /\ RAbs(x2') = RMul(Frac(14, 10), RAbs(x2))
          /\ x2 # Zero => (x2'.s = -x2.s /\ RLt(RAbs(x2), RAbs(x2')))

\* x2 has grown to a hundred times its magnitude at the start
GrownHundredfold == RLe(RMul(Frac(100, 1), RAbs(Start2)), RAbs(x2))

\* C23: gd_2d multiplies x2 by 1 - 4 * eta at every step: at eta = 0.4 the
\* magnitude of x2 shrinks by the factor 0.6; at eta = 0.6 x2 passes the
\* optimum at every step, its sign alternating, and its magnitude grows by the
\* factor 1.4 from any start other than 0, so that it diverges.
GdFactor ==
  /\ [][GdFactorStep]_vars
  /\ [](((trainer = "gd_2d" /\ eta = Frac(6, 10)) /\ (iter = 0 /\ x2 # Zero))
          => <>GrownHundredfold)

\* twenty steps at eta = 0.6 from x2 = -2: |x2| is 2 * 1.4^20, above 1000
GdFactorWitness ==
  /\ trainer = "gd_2d" /\ eta = Frac(6, 10) /\ iter = 20
  /\ Start2 = Frac(-2, 1)
  /\ RLt(Frac(1000, 1), RAbs(x2))


\* the run started at train_2d's point (-5, -2)
FromStart == results[1] = <<Frac(-5, 1), Frac(-2, 1)>>

\* the momentum_2d run of the text with the larger learning rate
LargerRateMomentum ==
  /\ trainer = "momentum_2d" /\ eta = Frac(6, 10) /\ gamma = Frac(1, 2)
  /\ FromStart

\* the gd_2d run with the same learning rate
LargerRateGd == trainer = "gd_2d" /\ eta = Frac(6, 10) /\ FromStart

\* C24: momentum_2d with eta = 0.6 and gamma = 0.5 from (-5, -2) and zero
\* velocity does not diverge: over the 20 steps of the run |x2| stays bounded
\* (by 2.8, its value after the first step) and ends below the 2 it started
\* at, while gd_2d with the same eta ends farther from 0 than it started.
MomentumDoesNotDiverge ==
  /\ LargerRateMomentum =>
       /\ RLe(RAbs(x2), Frac(28, 10))
       /\ iter >= 20 => RLt(RAbs(x2), RAbs(Start2))
  /\ (LargerRateGd /\ iter >= 20) => RLt(RAbs(Start2), RAbs(x2))

\* the momentum run after its 20 steps, having passed x2 = 2.8 on the way
MomentumDoesNotDivergeWitness ==
  /\ LargerRateMomentum /\ iter = 20
  /\ results[2][2] = Frac(28, 10)
  /\ RLt(RAbs(x2), Frac(1, 1))


\* the two runs of the text with the smaller learning rate
SmallerRateMomentum ==
  /\ trainer = "momentum_2d" /\ eta = Frac(4, 10) /\ gamma = Frac(1, 2)
  /\ FromStart

SmallerRateGd == trainer = "gd_2d" /\ eta = Frac(4, 10) /\ FromStart

\* C25: with eta = 0.4, after 20 steps from (-5, -2) momentum_2d with
\* gamma = 0.5 has |x1| smaller than gd_2d has: gd_2d is still farther than
\* 0.9 from the optimum, momentum_2d is nearer than 0.1.
MomentumCloserInX1 ==
  /\ (SmallerRateGd /\ iter = 20) => RLt(Frac(9, 10), RAbs(x1))
  /\ (SmallerRateMomentum /\ iter = 20) => RLt(RAbs(x1), Frac(1, 10))

\* the momentum run after its 20 steps, still short of the optimum
MomentumCloserInX1Witness ==
  /\ SmallerRateMomentum /\ iter = 20
  /\ x1 # Zero /\ RLt(RAbs(x1), Frac(1, 10))


\* the toy run's point, gradient and state as the tensors of the in-place
\* functions, and the hyperparameters of the same values
ToyParam == <<x1, x2>>
ToyGrad == <<Grad1, Grad2>>
ToyState == <<s1, s2>>
ToyHyper == [lr |-> eta, momentum |-> gamma, gamma |-> gamma]

\* the toy functions that have an in-place counterpart
HasInPlace == trainer \in {"momentum_2d", "adagrad_2d", "rmsprop_2d"}

\* what the in-place function of the toy function makes of the same inputs
InPlace ==
  CASE trainer = "momentum_2d" ->
         sgd_momentum_body(ToyParam, ToyGrad, ToyState, ToyHyper)
    [] trainer = "adagrad_2d" ->
         adagrad_body(ToyParam, ToyGrad, ToyState, ToyHyper)
    [] trainer = "rmsprop_2d" ->
         rmsprop_body(ToyParam, ToyGrad, ToyState, ToyHyper)

\* a and b differ by less than eps squared, the last digits of the arithmetic
UpToRounding(a, b) == RLt(RAbs(RSub(a, b)), RMul(eps, eps))

\* a toy step lands on the very values of the in-place function
SameValuesStep == (ToyStepTaken /\ HasInPlace) =>
  /\ x1' = InPlace.p[1] /\ x2' = InPlace.p[2]
  /\ s1' = InPlace.s[1] /\ s2' = InPlace.s[2]

AgreeingStep == (ToyStepTaken /\ HasInPlace) =>
  /\ UpToRounding(x1', InPlace.p[1]) /\ UpToRounding(x2', InPlace.p[2])
  /\ UpToRounding(s1', InPlace.s[1]) /\ UpToRounding(s2', InPlace.s[2])
  /\ trainer \in {"adagrad_2d", "rmsprop_2d"} =>
       s1' = InPlace.s[1] /\ s2' = InPlace.s[2]

RmspropGammas == {Zero, Frac(1, 2), Frac(9, 10), One}

NonNegative(a) == RLe(Zero, a)
Positive(a) == RLt(Zero, a)

\* s is a squared-gradient accumulator adagrad or rmsprop can divide by
SoundRoot(s) == NonNegative(s) /\ Positive(RSqrt(RAdd(s, eps)))

\* s is a squared-gradient accumulator adam can divide by at time step t
SoundRootAdam(s, t) ==
  /\ NonNegative(s)
  /\ Positive(s_bias_div(t))
  /\ NonNegative(RDiv(s, s_bias_div(t)))
  /\ Positive(RAdd(RSqrt(RDiv(s, s_bias_div(t))), eps))

AllSound(s) == \A j \in 1..Len(s) : SoundRoot(s[j])

\* C27: from the zero state the squared-gradient accumulator s of adagrad,
\* rmsprop (gamma in [0, 1]) and adam, and of adagrad_2d and rmsprop_2d, is
\* non-negative in every reachable state, so with eps > 0 the denominators
\* sqrt(s + eps) and sqrt(s_hat) + eps are positive: no update divides by
\* zero or takes the root of a negative number, a zero gradient on s = 0
\* included.
AccumulatorsNonNegative ==
  /\ Positive(eps)
  /\ trainer = "adagrad" => \A i \in 1..Len(states) : AllSound(states[i])
  /\ trainer = "rmsprop" => \A i \in 1..Len(states) :
       /\ AllSound(states[i])
       /\ \A G \in RmspropGammas :
            AllSound(rmsprop_s(grads[i], states[i], [lr |-> hyperparams.lr, gamma |-> G]))
  /\ trainer = "adam" => \A i \in 1..Len(states) :
       \A j \in 1..Len(states[i][2]) :
          /\ SoundRootAdam(states[i][2][j], hyperparams.t)
          /\ SoundRootAdam(adam_s(grads[i], states[i][2])[j], hyperparams.t)
  /\ trainer \in {"adagrad_2d", "rmsprop_2d"} => SoundRoot(s1) /\ SoundRoot(s2)

\* adagrad has been called with the gradient 0 on b, whose s is still 0
AccumulatorsNonNegativeWitness ==
  /\ trainer = "adagrad" /\ Len(hist) = 1
  /\ hist[1][2] = <<Zero>>
  /\ states[2] = <<Zero>>
  /\ Positive(states[1][1])


\* p has moved by less than lr, by no more than lr
MovedLess(lr, p, q) == RLt(RAbs(RSub(q, p)), lr)
MovedWithin(lr, p, q) == RLe(RAbs(RSub(q, p)), lr)

\* an accumulator small enough for eps to show in s + eps
EpsShows(s) == RLe(s, Frac(10^6, 1))

AdagradCall == CallStep /\ trainer = "adagrad"
Adagrad2dCall == ToyStepTaken /\ trainer = "adagrad_2d"

\* s_t >= g_t^2 after the update, for every coordinate
AccumulatorCoversSquare ==
  /\ AdagradCall =>
       \A i \in 1..Len(params) : \A j \in 1..Len(params[i]) :
          RLe(RMul(grads[i][j], grads[i][j]), states'[i][j])
  /\ Adagrad2dCall =>
       /\ RLe(RPow(Grad1, 2), s1')
       /\ RLe(RPow(Grad2, 2), s2')

\* every coordinate has moved by less than lr
StrictlyWithinLrStep ==
  /\ AdagradCall =>
       \A i \in 1..Len(params) : \A j \in 1..Len(params[i]) :
          MovedLess(hyperparams.lr, params[i][j], params'[i][j])
  /\ Adagrad2dCall =>
       /\ MovedLess(eta, x1, x1')
       /\ MovedLess(eta, x2, x2')

WithinLrStep ==
  /\ AdagradCall =>
       \A i \in 1..Len(params) : \A j \in 1..Len(params[i]) :
          /\ MovedWithin(hyperparams.lr, params[i][j], params'[i][j])
          /\ EpsShows(states'[i][j]) =>
               MovedLess(hyperparams.lr, params[i][j], params'[i][j])
  /\ Adagrad2dCall =>
       /\ MovedWithin(eta, x1, x1') /\ MovedWithin(eta, x2, x2')
       /\ EpsShows(s1') => MovedLess(eta, x1, x1')
       /\ EpsShows(s2') => MovedLess(eta, x2, x2')

====
